---- MODULE Spec2Model ----
(***************************************************************************)
(* Model of the voice-conversion orchestration layer:                      *)
(*   easy_voice_clone.py    EasyVoiceClone, module-level clone_voice, CLI  *)
(*   voice_clone_api/views.py   VoiceCloneView.post                        *)
(*                                                                         *)
(* Amplitudes are fixed point, one unit = 1/1000 of full scale (1.0).      *)
(* What the environment decides (whether a file operation succeeds, what   *)
(* the external model emits, whether it loads) is chosen with \E.          *)
(***************************************************************************)
EXTENDS Integers, Sequences, FiniteSets, TLC

\* ------------------------------------------------------------------ bounds
MaxBufLen == 2       \* samples per row of a model output buffer
MaxGen == 3          \* pairs emitted by one streaming conversion
NumThreads == 2      \* threads calling the facade concurrently
MaxCalls == 2        \* facade calls made in one behaviour
MaxRequests == 2     \* POST requests handled in one behaviour
MaxArgs == 4         \* command line arguments after the program name

\* ------------------------------------------------------- program constants
ClipThreshold == 1000     \* max_val > 1.0
ClipTarget == 950         \* ... * 0.95
QuietThreshold == 100     \* max_val < 0.1
BoostTarget == 500        \* ... * 0.5
RateF0 == 44100
RateSpeech == 22050
MinArgv == 4              \* len(sys.argv) < 4

\* ------------------------------------------------------------ small helpers
Abs(x) == IF x < 0 THEN -x ELSE x

Max2(a, b) == IF a > b THEN a ELSE b

RECURSIVE SeqMaxAbs(_)
SeqMaxAbs(s) == IF s = <<>> THEN 0 ELSE Max2(Abs(Head(s)), SeqMaxAbs(Tail(s)))

RECURSIVE Concat(_)
Concat(rows) == IF rows = <<>> THEN <<>> ELSE Head(rows) \o Concat(Tail(rows))

\* --------------------------------------------------------- audio buffers
\* sample values a model output may hold (units of 1/1000)
Amp == {-1500, -1000, -50, 0, 99, 100, 500, 950, 960, 1000, 1001}

Rows == UNION {[1..n -> Amp] : n \in 1..MaxBufLen}

\* an array: ndim 1 holds one row, ndim 2 holds two channels of one sample
Arrays ==
    {[ndim |-> 1, rows |-> <<r>>] : r \in Rows}
    \cup {[ndim |-> 2, rows |-> <<<<a>>, <<b>>>>] : a \in Amp, b \in Amp}

\* a zero-length one-dimensional array
EmptyArray == [ndim |-> 1, rows |-> <<<<>>>>]

\* result.flatten() when len(result.shape) > 1
Flatten(arr) == IF arr.ndim > 1 THEN Concat(arr.rows) ELSE arr.rows[1]

\* x / max_val * target on one sample, rounded to the nearest unit; the
\* peak sample maps to target exactly
Scale(x, maxv, target) ==
    IF x < 0 THEN -((2 * Abs(x) * target + maxv) \div (2 * maxv))
    ELSE (2 * x * target + maxv) \div (2 * maxv)

\* a buffer handed to sf.write: nan is TRUE when every sample is 0/0
Samples(nan, data) == [nan |-> nan, data |-> data]

NormalizeNoClip(flat) ==
    LET max_val == SeqMaxAbs(flat) IN
    IF max_val < QuietThreshold
    THEN IF max_val = 0
         THEN Samples(TRUE, flat)
         ELSE Samples(FALSE, [i \in 1..Len(flat) |-> Scale(flat[i], max_val, BoostTarget)])
    ELSE Samples(FALSE, flat)

\* the "Normalize to prevent clipping" block
Normalize(flat) ==
    LET max_val == SeqMaxAbs(flat) IN
    IF max_val > ClipThreshold
    THEN Samples(FALSE, [i \in 1..Len(flat) |-> Scale(flat[i], max_val, ClipTarget)])
    ELSE IF max_val < QuietThreshold
    THEN IF max_val = 0
         THEN Samples(TRUE, flat)      \* 0 / 0 in every sample
         ELSE Samples(FALSE, [i \in 1..Len(flat) |-> Scale(flat[i], max_val, BoostTarget)])
    ELSE Samples(FALSE, flat)

\* np.abs(buffer).max() of a written buffer; defined when not nan
Peak(w) == SeqMaxAbs(w.data)

\* ----------------------------------------------------------- sample rate
SrNone == [none |-> TRUE, v |-> 0]

SrOf(v) == [none |-> FALSE, v |-> v]

ExplicitRates == {0, 16000, 22050, 44100}

SampleRates == {SrNone} \cup {SrOf(v) : v \in ExplicitRates}

ResolveSampleRateFalsy(sample_rate, f0_condition) ==
    IF sample_rate.none \/ sample_rate.v = 0
    THEN (IF f0_condition THEN RateF0 ELSE RateSpeech)
    ELSE sample_rate.v

\* if sample_rate is None: sample_rate = 44100 if f0_condition else 22050
ResolveSampleRate(sample_rate, f0_condition) ==
    IF sample_rate.none
    THEN (IF f0_condition THEN RateF0 ELSE RateSpeech)
    ELSE sample_rate.v

\* ------------------------------------------------ streaming conversion
\* one full_audio payload: tlen = 0 is a bare object, tlen = 2 a
\* (sample_rate, object) pair, tlen = 3 some other tuple
Obj(type, arr) == [type |-> type, arr |-> arr]

NoneObj == Obj("NoneType", EmptyArray)

Payload(tlen, obj) == [tlen |-> tlen, obj |-> obj]

NonePayload == Payload(0, NoneObj)

\* the object bound to result by one iteration that sees a payload
Unwrap(full_audio) ==
    IF full_audio.tlen = 2 THEN full_audio.obj
    ELSE IF full_audio.tlen = 0 THEN full_audio.obj
    ELSE Obj("tuple", EmptyArray)

RECURSIVE ConsumeFirstFrom(_, _, _)
ConsumeFirstFrom(gen, i, result) ==
    IF i > Len(gen) THEN [result |-> result, consumed |-> i - 1]
    ELSE IF gen[i] # NonePayload /\ result = NoneObj
         THEN ConsumeFirstFrom(gen, i + 1, Unwrap(gen[i]))
         ELSE ConsumeFirstFrom(gen, i + 1, result)

ConsumeFirst(gen) == ConsumeFirstFrom(gen, 1, NoneObj)

RECURSIVE ConsumeFrom(_, _, _)
ConsumeFrom(gen, i, result) ==
    IF i > Len(gen) THEN [result |-> result, consumed |-> i - 1]
    ELSE IF gen[i] # NonePayload
         THEN ConsumeFrom(gen, i + 1, Unwrap(gen[i]))
         ELSE ConsumeFrom(gen, i + 1, result)

\* result = None; for mp3_bytes, full_audio in result_gen: ...
Consume(gen) == ConsumeFrom(gen, 1, NoneObj)

\* -------------------------------------------- EasyVoiceClone.clone_voice
NoSamples == Samples(FALSE, <<>>)

Outcome(exc, msg, invoked, consumed, wrote, written, rate) ==
    [exc |-> exc, msg |-> msg, invoked |-> invoked, consumed |-> consumed,
     wrote |-> wrote, written |-> written, rate |-> rate, madeDir |-> FALSE]

\* os.path.dirname(output_path) as the file system has it: "" no directory
\* component, "exists", "creatable" (missing, os.makedirs creates it),
\* "under_file" (a parent is a regular file), "unreachable" (a parent
\* that cannot hold new entries, as under /proc)
OutDirs == {"", "exists", "creatable", "under_file", "unreachable"}

\* the exception os.makedirs raises, "None" when lines 126-128 pass
MakedirsExc(outDir) ==
    IF outDir = "under_file" THEN "NotADirectoryError"
    ELSE IF outDir = "unreachable" THEN "FileNotFoundError"
    ELSE "None"

\* the outcome o of the steps after lines 126-128, which created outDir
WithDir(o, outDir) == [o EXCEPT !.madeDir = (outDir = "creatable")]

\* what sf.write raises, by whether it succeeds: libsndfile's errors are
\* RuntimeErrors
WriteExc(writeOk) == IF writeOk THEN "None" ELSE "RuntimeError"

\* lines 136-197, reached once the inputs exist and the output directory
\* is in place; writeExc is what sf.write raises ("None": it succeeds)
ConvertAndWrite(f0_condition, sample_rate, gen, writeExc) ==
      LET rate == ResolveSampleRate(sample_rate, f0_condition)
          c == Consume(gen)
      IN
      IF c.result = NoneObj
      THEN Outcome("TypeError", "No audio was generated from convert_voice",
                   TRUE, c.consumed, FALSE, NoSamples, rate)
      ELSE IF c.result.type \notin {"Tensor", "ndarray"}
      THEN Outcome("TypeError", "Unexpected audio type",
                   TRUE, c.consumed, FALSE, NoSamples, rate)
      ELSE
        LET w == Normalize(Flatten(c.result.arr)) IN
        IF Flatten(c.result.arr) = <<>>
        THEN Outcome("ValueError", "zero-size array to reduction operation maximum",
                     TRUE, c.consumed, FALSE, NoSamples, rate)
        ELSE IF writeExc = "None"
        THEN Outcome("None", "", TRUE, c.consumed, TRUE, w, rate)
        ELSE Outcome(writeExc, "Error saving file", TRUE, c.consumed, FALSE, w, rate)

\* srcExists/tgtExists: os.path.exists of the two inputs; outDir: the
\* directory of output_path; gen: what convert_voice emits; writeExc:
\* what sf.write raises
EasyVoiceClone_clone_voice(srcExists, tgtExists, outDir, f0_condition, sample_rate, gen, writeExc) ==
    IF ~srcExists
    THEN Outcome("FileNotFoundError", "Source audio not found", FALSE, 0, FALSE, NoSamples, 0)
    ELSE IF ~tgtExists
    THEN Outcome("FileNotFoundError", "Target audio not found", FALSE, 0, FALSE, NoSamples, 0)
    ELSE IF MakedirsExc(outDir) # "None"
    THEN Outcome(MakedirsExc(outDir), "os.makedirs failed", FALSE, 0, FALSE, NoSamples, 0)
    ELSE WithDir(ConvertAndWrite(f0_condition, sample_rate, gen, writeExc), outDir)

\* ------------------------------------------------ EasyVoiceClone.__init__
NoneCloner == 0

Devices == {"None", "cpu", "bogus"}

\* torch.device(device) rejects an unknown device string; loadOk: whether
\* SeedVCWrapper(device=...) loads its models
EasyVoiceClone_init(device, loadOk) ==
    IF device \notin {"None", "cpu", "cuda"}
    THEN [ok |-> FALSE, exc |-> "RuntimeError", msg |-> "Expected one of cpu, cuda, ... device type"]
    ELSE IF ~loadOk
    THEN [ok |-> FALSE, exc |-> "OSError", msg |-> "model load failed"]
    ELSE [ok |-> TRUE, exc |-> "None", msg |-> ""]

InitFailed(r) ==
    Outcome(r.exc, r.msg, FALSE, 0, FALSE, NoSamples, 0)

\* ------------------------------------------------------------- state
VARIABLES
    global_cloner,   \* _global_cloner: NoneCloner or the id of an instance
    constructed,     \* EasyVoiceClone instances constructed so far
    pc,              \* per thread: position inside module-level clone_voice
    args,            \* per thread: arguments of the call in progress
    last,            \* per thread: how its last finished call ended
    used,            \* per thread: instance its last call delegated to
    mine,            \* per thread: instance it built and has not yet stored
    calls,           \* facade calls started
    conv,            \* one call of EasyVoiceClone.clone_voice: its inputs
    convOut,         \* ... and its outcome
    hpc,             \* per request thread: position in VoiceCloneView.post
    req,             \* per request thread: the request being handled
    fs,              \* ... its temporary directory and files
    resp,            \* ... the response built so far
    raised,          \* ... message of the exception raised while handling
    warned,          \* ... logger.warning("Cleanup error ...") was issued
    facadeCalls,     \* ... clone_voice calls made for the request
    nreq,            \* requests received
    argv,            \* sys.argv
    cli              \* the __main__ block: phase, exit status, output

threadVars == <<pc, args, last, used, mine, calls>>
convVars == <<conv, convOut>>
httpVars == <<hpc, req, fs, resp, raised, warned, facadeCalls, nreq>>
cliVars == <<argv, cli>>
clonerVars == <<global_cloner, constructed>>
vars == <<global_cloner, constructed, pc, args, last, used, mine, calls, conv, convOut,
          hpc, req, fs, resp, raised, warned, facadeCalls, nreq, argv, cli>>

Threads == 1..NumThreads

\* ---------------------------------------------------- idle sub-systems
NoArgs == [srcExists |-> FALSE, tgtExists |-> FALSE, device |-> "None",
           outDir |-> "", f0_condition |-> FALSE]

NoLast == [valid |-> FALSE, srcExists |-> FALSE, tgtExists |-> FALSE,
           out |-> Outcome("None", "", FALSE, 0, FALSE, NoSamples, 0)]

ThreadsIdle ==
    /\ pc = [t \in Threads |-> "idle"]
    /\ args = [t \in Threads |-> NoArgs]
    /\ last = [t \in Threads |-> NoLast]
    /\ used = [t \in Threads |-> NoneCloner]
    /\ mine = [t \in Threads |-> NoneCloner]
    /\ calls = 0

NoConv == [phase |-> "off", outDir |-> "", f0_condition |-> FALSE,
           sample_rate |-> SrNone, gen |-> <<>>, writeOk |-> TRUE]

ConvIdle ==
    /\ conv = NoConv
    /\ convOut = Outcome("None", "", FALSE, 0, FALSE, NoSamples, 0)

ClonerInit ==
    /\ global_cloner = NoneCloner
    /\ constructed = 0

\* ------------------------------- module-level clone_voice, one thread each
\* what convert_voice emits in the concurrent and sequential call paths
OneSample(x) == [ndim |-> 1, rows |-> <<<<x>>>>]

CallGens ==
    {<<>>,
     <<Payload(0, Obj("ndarray", OneSample(500)))>>,
     <<NonePayload, Payload(2, Obj("Tensor", OneSample(0)))>>}

\* a direct caller enters clone_voice; f0_condition and sample_rate are
\* left at their defaults
Call(t) ==
    /\ pc[t] = "idle"
    /\ calls < MaxCalls
    /\ \E s \in BOOLEAN, g \in BOOLEAN, d \in Devices, o \in OutDirs :
         args' = [args EXCEPT ![t] = [srcExists |-> s, tgtExists |-> g, device |-> d,
                                       outDir |-> o, f0_condition |-> FALSE]]
    /\ pc' = [pc EXCEPT ![t] = "check"]
    /\ calls' = calls + 1
    /\ UNCHANGED <<last, used, mine, clonerVars, convVars, httpVars, cliVars>>

\* if _global_cloner is None:
CheckCloner(t) ==
    /\ pc[t] = "check"
    /\ pc' = [pc EXCEPT ![t] = IF global_cloner = NoneCloner THEN "init" ELSE "bind"]
    /\ UNCHANGED <<args, last, used, mine, calls, clonerVars, convVars, httpVars, cliVars>>

\* the right-hand side of line 256: EasyVoiceClone(device=device) runs to
\* its end (or raises) while _global_cloner is still what it was
BuildCloner(t) ==
    /\ pc[t] = "init"
    /\ \E loadOk \in BOOLEAN :
         LET r == EasyVoiceClone_init(args[t].device, loadOk) IN
         IF r.ok
         THEN /\ constructed' = constructed + 1
              /\ mine' = [mine EXCEPT ![t] = constructed + 1]
              /\ pc' = [pc EXCEPT ![t] = "assign"]
              /\ UNCHANGED last
         ELSE /\ last' = [last EXCEPT ![t] =
                    [valid |-> TRUE, srcExists |-> args[t].srcExists,
                     tgtExists |-> args[t].tgtExists, out |-> InitFailed(r)]]
              /\ pc' = [pc EXCEPT ![t] = "idle"]
              /\ UNCHANGED <<constructed, mine>>
    /\ UNCHANGED <<global_cloner, args, used, calls, convVars, httpVars, cliVars>>

\* the store of line 256: _global_cloner = <the instance just built>
AssignCloner(t) ==
    /\ pc[t] = "assign"
    /\ global_cloner' = mine[t]
    /\ mine' = [mine EXCEPT ![t] = NoneCloner]
    /\ pc' = [pc EXCEPT ![t] = "bind"]
    /\ UNCHANGED <<constructed, args, last, used, calls, convVars, httpVars, cliVars>>

\* line 258: _global_cloner is read and its clone_voice method is entered
BindCloner(t) ==
    /\ pc[t] = "bind"
    /\ used' = [used EXCEPT ![t] = global_cloner]
    /\ pc' = [pc EXCEPT ![t] = "inside"]
    /\ UNCHANGED <<args, last, mine, calls, clonerVars, convVars, httpVars, cliVars>>

\* lines 119-197 on the bound instance, then the return of line 258
Delegate(t) ==
    /\ pc[t] = "inside"
    /\ \E gen \in CallGens, writeOk \in BOOLEAN :
         last' = [last EXCEPT ![t] =
             [valid |-> TRUE, srcExists |-> args[t].srcExists,
              tgtExists |-> args[t].tgtExists,
              out |-> EasyVoiceClone_clone_voice(args[t].srcExists, args[t].tgtExists,
                                                 args[t].outDir, args[t].f0_condition,
                                                 SrNone, gen, WriteExc(writeOk))]]
    /\ pc' = [pc EXCEPT ![t] = "idle"]
    /\ UNCHANGED <<args, used, mine, calls, clonerVars, convVars, httpVars, cliVars>>

\* ---------------------------- EasyVoiceClone.clone_voice on existing files
GenArrays == {OneSample(500), OneSample(-1500)}

GenPayloads ==
    {NonePayload, Payload(3, Obj("tuple", EmptyArray))}
    \cup {Payload(n, Obj(ty, a)) : n \in {0, 2}, ty \in {"ndarray", "Tensor", "list"},
                                   a \in GenArrays}

GenSeqs == UNION {[1..n -> GenPayloads] : n \in 0..MaxGen}

Convert ==
    /\ conv.phase = "ready"
    /\ convOut' = EasyVoiceClone_clone_voice(TRUE, TRUE, conv.outDir, conv.f0_condition,
                                             conv.sample_rate, conv.gen, WriteExc(conv.writeOk))
    /\ conv' = [conv EXCEPT !.phase = "done"]
    /\ UNCHANGED <<clonerVars, threadVars, httpVars, cliVars>>

\* ------------------------------------ module-level clone_voice, sequential
\* one whole call made by a single-threaded caller (HTTP handler, CLI)
clone_voice(cloner, n, device, loadOk, srcExists, tgtExists, outDir, f0_condition, sample_rate, gen, writeExc) ==
    LET r == EasyVoiceClone_init(device, loadOk) IN
    IF cloner = NoneCloner /\ ~r.ok
    THEN [cloner |-> cloner, constructed |-> n, out |-> InitFailed(r)]
    ELSE [cloner |-> IF cloner = NoneCloner THEN n + 1 ELSE cloner,
          constructed |-> IF cloner = NoneCloner THEN n + 1 ELSE n,
          out |-> EasyVoiceClone_clone_voice(srcExists, tgtExists, outDir, f0_condition,
                                             sample_rate, gen, writeExc)]

\* ------------------------------------------------- VoiceCloneView.post
Absent == "<absent>"

DiffusionStepsIn == {Absent, "abc"}
F0In == {Absent, "False"}
AutoF0In == {Absent}
CfgRateIn == {Absent, "x"}

\* int(request.data.get('diffusion_steps', 100)) succeeds
IntOk(s) == s \in {Absent, "25", "100"}

\* float(request.data.get('inference_cfg_rate', 0.7)) succeeds
FloatOk(s) == s \in {Absent, "0.7"}

\* str.lower() on the strings used here
Lower(s) == IF s \in {"True", "TRUE"} THEN "true"
            ELSE IF s \in {"False", "FALSE"} THEN "false" ELSE s

\* request.data.get(name, 'true').lower() == 'true'
ParseFlag(s) == Lower(IF s = Absent THEN "true" ELSE s) = "true"

MissingPartBoth(srcPresent, tgtPresent) == ~srcPresent /\ ~tgtPresent

\* if not source_audio or not target_audio:
MissingPart(srcPresent, tgtPresent) == ~srcPresent \/ ~tgtPresent

AllRequests ==
    [src : BOOLEAN, tgt : BOOLEAN, diffusion_steps : DiffusionStepsIn,
     f0_condition : F0In, auto_f0_adjust : AutoF0In, inference_cfg_rate : CfgRateIn]

\* the requests handled: the numeric fields vary only where line 55 is
\* reached (both file parts present), the pitch flag only where it is
\* passed on to clone_voice (both numeric fields parse)
Requests ==
    {r \in AllRequests :
        /\ (r.src /\ r.tgt)
             \/ (r.diffusion_steps = Absent /\ r.inference_cfg_rate = Absent)
        /\ (r.src /\ r.tgt /\ IntOk(r.diffusion_steps) /\ FloatOk(r.inference_cfg_rate))
             \/ r.f0_condition = Absent}

NoReq == [src |-> FALSE, tgt |-> FALSE, diffusion_steps |-> Absent,
          f0_condition |-> Absent, auto_f0_adjust |-> Absent,
          inference_cfg_rate |-> Absent]

NoFiles == [dir |-> FALSE, src |-> FALSE, tgt |-> FALSE, out |-> FALSE]

Response(status, error, detail) == [status |-> status, error |-> error, detail |-> detail]

NoResponse == Response(0, "", "")

BadRequest == Response(400, "Both source_audio and target_audio files are required", "")

\* {'error': f'Voice cloning failed: {str(e)}'}
Failed(msg) == Response(500, "Voice cloning failed: ", msg)

WavResponse == Response(200, "", "audio/wav")

HttpIdle ==
    /\ hpc = [h \in Threads |-> "idle"]
    /\ req = [h \in Threads |-> NoReq]
    /\ fs = [h \in Threads |-> NoFiles]
    /\ resp = [h \in Threads |-> NoResponse]
    /\ raised = [h \in Threads |-> ""]
    /\ warned = [h \in Threads |-> FALSE]
    /\ facadeCalls = [h \in Threads |-> 0]
    /\ nreq = 0

\* the server hands a request to the free request thread h
Receive(h) ==
    /\ hpc[h] \in {"idle", "returned", "raised"}
    /\ nreq < MaxRequests
    /\ \E r \in Requests : req' = [req EXCEPT ![h] = r]
    /\ hpc' = [hpc EXCEPT ![h] = "validate"]
    /\ fs' = [fs EXCEPT ![h] = NoFiles]
    /\ resp' = [resp EXCEPT ![h] = NoResponse]
    /\ raised' = [raised EXCEPT ![h] = ""]
    /\ warned' = [warned EXCEPT ![h] = FALSE]
    /\ facadeCalls' = [facadeCalls EXCEPT ![h] = 0]
    /\ nreq' = nreq + 1
    /\ UNCHANGED <<clonerVars, threadVars, convVars, cliVars>>

\* lines 45-52
Post_Validate(h) ==
    /\ hpc[h] = "validate"
    /\ IF MissingPart(req[h].src, req[h].tgt)
       THEN /\ resp' = [resp EXCEPT ![h] = BadRequest]
            /\ hpc' = [hpc EXCEPT ![h] = "returned"]
       ELSE /\ resp' = resp
            /\ hpc' = [hpc EXCEPT ![h] = "parse"]
    /\ UNCHANGED <<req, fs, raised, warned, facadeCalls, nreq,
                   clonerVars, threadVars, convVars, cliVars>>

\* lines 55-58, outside the try block
Post_Parse(h) ==
    /\ hpc[h] = "parse"
    /\ IF ~IntOk(req[h].diffusion_steps)
       THEN /\ raised' = [raised EXCEPT ![h] = "invalid literal for int() with base 10"]
            /\ hpc' = [hpc EXCEPT ![h] = "raised"]
       ELSE IF ~FloatOk(req[h].inference_cfg_rate)
       THEN /\ raised' = [raised EXCEPT ![h] = "could not convert string to float"]
            /\ hpc' = [hpc EXCEPT ![h] = "raised"]
       ELSE /\ raised' = raised
            /\ hpc' = [hpc EXCEPT ![h] = "mkdtemp"]
    /\ UNCHANGED <<req, fs, resp, warned, facadeCalls, nreq,
                   clonerVars, threadVars, convVars, cliVars>>

\* line 61, outside the try block
Post_Mkdtemp(h) ==
    /\ hpc[h] = "mkdtemp"
    /\ \E ok \in BOOLEAN :
         IF ok
         THEN /\ fs' = [fs EXCEPT ![h].dir = TRUE]
              /\ raised' = raised
              /\ hpc' = [hpc EXCEPT ![h] = "save_source"]
         ELSE /\ fs' = fs
              /\ raised' = [raised EXCEPT ![h] = "No usable temporary directory"]
              /\ hpc' = [hpc EXCEPT ![h] = "raised"]
    /\ UNCHANGED <<req, resp, warned, facadeCalls, nreq,
                   clonerVars, threadVars, convVars, cliVars>>

SaveOutcomes == {"ok", "open_failed", "write_failed"}

\* an exception inside the try block: the except clause, lines 106-111
Except(h, msg) ==
    /\ raised' = [raised EXCEPT ![h] = msg]
    /\ resp' = [resp EXCEPT ![h] = Failed(msg)]
    /\ hpc' = [hpc EXCEPT ![h] = "finally"]

\* lines 64-70
Post_SaveSource(h) ==
    /\ hpc[h] = "save_source"
    /\ IF ~req[h].src \/ ~req[h].tgt
       THEN /\ Except(h, "'NoneType' object has no attribute 'name'")
            /\ fs' = fs
       ELSE \E o \in SaveOutcomes :
            /\ fs' = [fs EXCEPT ![h].src = (o # "open_failed")]
            /\ IF o = "ok"
               THEN /\ raised' = raised
                    /\ resp' = resp
                    /\ hpc' = [hpc EXCEPT ![h] = "save_target"]
               ELSE Except(h, "cannot write source upload")
    /\ UNCHANGED <<req, warned, facadeCalls, nreq,
                   clonerVars, threadVars, convVars, cliVars>>

\* lines 72-74
Post_SaveTarget(h) ==
    /\ hpc[h] = "save_target"
    /\ \E o \in SaveOutcomes :
         /\ fs' = [fs EXCEPT ![h].tgt = (o # "open_failed")]
         /\ IF o = "ok"
            THEN /\ raised' = raised
                 /\ resp' = resp
                 /\ hpc' = [hpc EXCEPT ![h] = "clone"]
            ELSE Except(h, "cannot write target upload")
    /\ UNCHANGED <<req, warned, facadeCalls, nreq,
                   clonerVars, threadVars, convVars, cliVars>>

\* lines 79-87, the call: request thread h enters the module-level
\* clone_voice, whose steps are CheckCloner .. Delegate
Post_Clone(h) ==
    /\ hpc[h] = "clone"
    /\ pc[h] = "idle"
    /\ args' = [args EXCEPT ![h] =
                  [srcExists |-> fs[h].src, tgtExists |-> fs[h].tgt, device |-> "None",
                   outDir |-> IF fs[h].dir THEN "exists" ELSE "creatable",
                   f0_condition |-> ParseFlag(req[h].f0_condition)]]
    /\ last' = [last EXCEPT ![h] = NoLast]
    /\ pc' = [pc EXCEPT ![h] = "check"]
    /\ facadeCalls' = [facadeCalls EXCEPT ![h] = facadeCalls[h] + 1]
    /\ hpc' = [hpc EXCEPT ![h] = "in_clone"]
    /\ UNCHANGED <<req, fs, resp, raised, warned, nreq, used, mine, calls,
                   clonerVars, convVars, cliVars>>

\* lines 79-87, the return: clone_voice came back or raised; the call's
\* arguments, bound instance and result go out of scope
Post_CloneReturn(h) ==
    /\ hpc[h] = "in_clone"
    /\ pc[h] = "idle"
    /\ last[h].valid
    /\ fs' = [fs EXCEPT ![h].out = last[h].out.wrote]
    /\ IF last[h].out.exc = "None"
       THEN /\ raised' = raised
            /\ resp' = resp
            /\ hpc' = [hpc EXCEPT ![h] = "respond"]
       ELSE Except(h, last[h].out.msg)
    /\ args' = [args EXCEPT ![h] = NoArgs]
    /\ last' = [last EXCEPT ![h] = NoLast]
    /\ used' = [used EXCEPT ![h] = NoneCloner]
    /\ UNCHANGED <<req, warned, facadeCalls, nreq, pc, mine, calls,
                   clonerVars, convVars, cliVars>>

\* lines 90-104
Post_Respond(h) ==
    /\ hpc[h] = "respond"
    /\ resp' = [resp EXCEPT ![h] =
                  IF fs[h].out THEN WavResponse
                  ELSE Response(500, "Failed to generate cloned audio", "")]
    /\ hpc' = [hpc EXCEPT ![h] = "finally"]
    /\ UNCHANGED <<req, fs, raised, warned, facadeCalls, nreq,
                   clonerVars, threadVars, convVars, cliVars>>

CleanupSourceOnly(f, rmSrcOk, rmTgtOk) ==
    IF f.src /\ ~rmSrcOk
    THEN [fs |-> f, warned |-> TRUE]
    ELSE [fs |-> [f EXCEPT !.src = FALSE], warned |-> FALSE]

\* the finally block, lines 112-121: rmSrcOk/rmTgtOk say whether os.remove
\* of the source/target succeeds; a failure skips what follows it
Cleanup(f, rmSrcOk, rmTgtOk) ==
    IF f.src /\ ~rmSrcOk
    THEN [fs |-> f, warned |-> TRUE]
    ELSE LET f1 == [f EXCEPT !.src = FALSE] IN
         IF f1.tgt /\ ~rmTgtOk
         THEN [fs |-> f1, warned |-> TRUE]
         ELSE [fs |-> [f1 EXCEPT !.tgt = FALSE], warned |-> FALSE]

Post_Cleanup(h) ==
    /\ hpc[h] = "finally"
    /\ \E rmSrcOk \in BOOLEAN, rmTgtOk \in BOOLEAN :
         LET c == Cleanup(fs[h], rmSrcOk, rmTgtOk) IN
         /\ fs' = [fs EXCEPT ![h] = c.fs]
         /\ warned' = [warned EXCEPT ![h] = c.warned]
    /\ hpc' = [hpc EXCEPT ![h] = "returned"]
    /\ UNCHANGED <<req, resp, raised, facadeCalls, nreq,
                   clonerVars, threadVars, convVars, cliVars>>

\* ------------------------------------------------------ __main__ block
Tokens == {"a.wav", "b.wav", "out.wav", "new/out.wav", "a.wav/out.wav",
           "a.wav/sub/out.wav", "--f0", "--pitch_shift", "-2"}

\* paths that exist when the program runs
ExistingFiles == {"a.wav", "b.wav"}

ArgLists == UNION {[1..n -> Tokens] : n \in 0..MaxArgs}

\* int(sys.argv[idx + 1]) succeeds
CliIntOk(tok) == tok \in {"-2"}

Contains(seq, x) == \E i \in 1..Len(seq) : seq[i] = x

\* sys.argv.index(x), as a position of the 1-based sequence
IndexOf(seq, x) == CHOOSE i \in 1..Len(seq) : seq[i] = x /\ \A j \in 1..(i - 1) : seq[j] # x

CliState(phase, status, usage, invoked, exc) ==
    [phase |-> phase, status |-> status, usage |-> usage, invoked |-> invoked, exc |-> exc]

CliIdle ==
    /\ argv = <<"easy_voice_clone.py">>
    /\ cli = CliState("off", 0, FALSE, FALSE, "None")

\* lines 276-281
Cli_CheckArgs ==
    /\ cli.phase = "start"
    /\ cli' = IF Len(argv) < MinArgv
              THEN CliState("exit", 1, TRUE, FALSE, "SystemExit")
              ELSE [cli EXCEPT !.phase = "parsed"]
    /\ UNCHANGED <<argv, clonerVars, threadVars, convVars, httpVars>>

\* if "--pitch_shift" in sys.argv: ... pitch = int(sys.argv[idx + 1])
PitchParses(av) ==
    IF Contains(av, "--pitch_shift")
    THEN LET idx == IndexOf(av, "--pitch_shift") IN
         IF idx + 1 <= Len(av) THEN CliIntOk(av[idx + 1]) ELSE TRUE
    ELSE TRUE

\* the directory of the output argument as the file system has it
CliOutDir(tok) ==
    IF tok = "new/out.wav" THEN "creatable"
    ELSE IF tok = "a.wav/out.wav" THEN "exists"
    ELSE IF tok = "a.wav/sub/out.wav" THEN "under_file"
    ELSE ""

\* the output arguments whose extension names a format sf.write knows
WavNamed == {"a.wav", "b.wav", "out.wav", "new/out.wav", "a.wav/out.wav", "a.wav/sub/out.wav"}

\* sf.write can produce the output argument: its extension names the
\* format and it does not lie below the regular file a.wav
CliWritable(tok) == tok \in WavNamed \ {"a.wav/out.wav", "a.wav/sub/out.wav"}

\* what sf.write(output_path, ...) raises for the output argument: a
\* TypeError when no format can be taken from the file name, a
\* RuntimeError when the file cannot be opened or written
CliWriteExc(tok, writeOk) ==
    IF tok \notin WavNamed THEN "TypeError"
    ELSE WriteExc(writeOk /\ CliWritable(tok))

\* lines 284-304
Cli_Run ==
    /\ cli.phase = "parsed"
    /\ IF ~PitchParses(argv)
       THEN /\ cli' = CliState("exit", 1, FALSE, FALSE, "ValueError")
            /\ UNCHANGED clonerVars
       ELSE \E loadOk \in BOOLEAN, gen \in CallGens, writeOk \in BOOLEAN :
            LET c == clone_voice(global_cloner, constructed, "None", loadOk,
                                 argv[2] \in ExistingFiles, argv[3] \in ExistingFiles,
                                 CliOutDir(argv[4]),
                                 Contains(argv, "--f0"), SrNone, gen,
                                 CliWriteExc(argv[4], writeOk))
            IN
            /\ global_cloner' = c.cloner
            /\ constructed' = c.constructed
            /\ cli' = CliState("exit", IF c.out.exc = "None" THEN 0 ELSE 1,
                               FALSE, TRUE, c.out.exc)
    /\ UNCHANGED <<argv, threadVars, convVars, httpVars>>

\* ------------------------------------------------------ specifications
\* concurrent callers of the module-level clone_voice
Init == ClonerInit /\ ThreadsIdle /\ ConvIdle /\ HttpIdle /\ CliIdle

Next ==
    \E t \in Threads :
        \/ Call(t)
        \/ CheckCloner(t)
        \/ BuildCloner(t)
        \/ AssignCloner(t)
        \/ BindCloner(t)
        \/ Delegate(t)

Spec == Init /\ [][Next]_vars

\* one conversion of every single-payload model output
InitNorm ==
    /\ ClonerInit /\ ThreadsIdle /\ HttpIdle /\ CliIdle
    /\ convOut = Outcome("None", "", FALSE, 0, FALSE, NoSamples, 0)
    /\ \E n \in {0, 2}, ty \in {"ndarray", "Tensor"}, a \in Arrays \cup {EmptyArray},
          o \in OutDirs, f0 \in BOOLEAN, w \in BOOLEAN :
         conv = [phase |-> "ready", outDir |-> o, f0_condition |-> f0,
                 sample_rate |-> SrNone, gen |-> <<Payload(n, Obj(ty, a))>>,
                 writeOk |-> w]

NextNorm == Convert

SpecNorm == InitNorm /\ [][NextNorm]_vars

\* one conversion of every emitted sequence
InitGen ==
    /\ ClonerInit /\ ThreadsIdle /\ HttpIdle /\ CliIdle
    /\ convOut = Outcome("None", "", FALSE, 0, FALSE, NoSamples, 0)
    /\ \E g \in GenSeqs, o \in OutDirs, f0 \in BOOLEAN, sr \in SampleRates,
          w \in BOOLEAN :
         conv = [phase |-> "ready", outDir |-> o, f0_condition |-> f0,
                 sample_rate |-> sr, gen |-> g, writeOk |-> w]

NextGen == Convert

SpecGen == InitGen /\ [][NextGen]_vars

\* the HTTP handler on concurrent request threads of one server process
InitHttp == Init

NextHttp ==
    \E h \in Threads :
        \/ Receive(h)
        \/ Post_Validate(h)
        \/ Post_Parse(h)
        \/ Post_Mkdtemp(h)
        \/ Post_SaveSource(h)
        \/ Post_SaveTarget(h)
        \/ Post_Clone(h)
        \/ CheckCloner(h)
        \/ BuildCloner(h)
        \/ AssignCloner(h)
        \/ BindCloner(h)
        \/ Delegate(h)
        \/ Post_CloneReturn(h)
        \/ Post_Respond(h)
        \/ Post_Cleanup(h)

SpecHttp == InitHttp /\ [][NextHttp]_vars

\* the command line
InitCli ==
    /\ ClonerInit /\ ThreadsIdle /\ ConvIdle /\ HttpIdle
    /\ \E a \in ArgLists : argv = <<"easy_voice_clone.py">> \o a
    /\ cli = CliState("start", 0, FALSE, FALSE, "None")

NextCli == Cli_CheckArgs \/ Cli_Run

SpecCli == InitCli /\ [][NextCli]_vars

\* ============================================================== claims

\* C1: every facade call whose source or target path does not exist fails
\* with FileNotFoundError, and no model invocation precedes the failure.
C1_NotFoundBeforeModel ==
    \A t \in Threads :
        (last[t].valid /\ (~last[t].srcExists \/ ~last[t].tgtExists))
            => (last[t].out.exc = "FileNotFoundError" /\ ~last[t].out.invoked)

\* C2: across every interleaving the model instance is constructed at most
\* once, every call delegates to that one instance, and a set handle is
\* never reset or replaced.
C2_SingleInstance ==
    [][ /\ constructed' <= 1
        /\ (global_cloner # NoneCloner => global_cloner' = global_cloner)
        /\ \A t \in Threads, u \in Threads :
              (used'[t] # NoneCloner /\ used'[u] # NoneCloner) => used'[t] = used'[u]
      ]_vars

\* C3 as stated: when the handler returns for a request with both parts,
\* the temporary source and target files no longer exist.
C3_InputsDeleted ==
    \A h \in Threads :
        (hpc[h] = "returned" /\ req[h].src /\ req[h].tgt) => (~fs[h].src /\ ~fs[h].tgt)

\* C3 amended: the cleanup never changes the response, and when the
\* handler returns without a cleanup warning for a request with both
\* parts, the temporary source and target files no longer exist.
C3_InputsDeletedUnlessWarned ==
    [][ \A h \in Threads :
        /\ (hpc[h] = "finally" => resp'[h] = resp[h])
        /\ (hpc'[h] = "returned" /\ req'[h].src /\ req'[h].tgt /\ ~warned'[h])
              => (~fs'[h].src /\ ~fs'[h].tgt)
      ]_vars

\* C3 witness: both uploads were written, converted and then removed.
C3_Witness ==
    \E h \in Threads :
        /\ hpc[h] = "returned" /\ req[h].src /\ req[h].tgt
        /\ resp[h].status = 200 /\ fs[h].out
        /\ ~warned[h] /\ ~fs[h].src /\ ~fs[h].tgt

\* C4: a request missing source_audio or target_audio is answered 400,
\* with no temporary directory or file created and no facade call.
C4_MissingPart400 ==
    \A h \in Threads :
        (hpc[h] \notin {"idle", "validate"} /\ (~req[h].src \/ ~req[h].tgt))
            => /\ hpc[h] = "returned"
               /\ resp[h].status = 400
               /\ fs[h] = NoFiles
               /\ facadeCalls[h] = 0

\* C4 witness: a request carrying only the target part was answered 400.
C4_Witness ==
    \E h \in Threads :
        hpc[h] = "returned" /\ ~req[h].src /\ req[h].tgt /\ resp[h].status = 400

\* C5: for a request with both parts, every exception raised while
\* handling it becomes a 500 response embedding its message; none escapes.
C5_AllExceptionsMapped ==
    \A h \in Threads :
        (req[h].src /\ req[h].tgt /\ raised[h] # "")
            => /\ hpc[h] # "raised"
               /\ (hpc[h] = "returned" => resp[h] = Failed(raised[h]))

\* peak of the raw model output of a single-payload conversion
RawFlat == Flatten(conv.gen[1].obj.arr)

RawPeak == SeqMaxAbs(RawFlat)

\* some sample of the written buffer w has absolute amplitude above
\* bound; a NaN sample compares above nothing
Exceeds(w, bound) == ~w.nan /\ Peak(w) > bound

\* C6 as stated: whatever the raw peak, no sample of the buffer written
\* to the WAV file has absolute amplitude above 0.95.
C6_PeakAtMost095 ==
    (conv.phase = "done" /\ convOut.wrote)
        => ~Exceeds(convOut.written, ClipTarget)

\* C6 amended: no sample of the written buffer has absolute amplitude
\* above 0.95, unless the raw peak lies in (0.95, 1.0]: such a buffer is
\* written unchanged, so its peak is the raw peak, at most 1.0.
C6_PeakAtMost095UnlessUnscaled ==
    (conv.phase = "done" /\ convOut.wrote)
        => /\ (RawPeak <= ClipTarget \/ RawPeak > ClipThreshold)
                => ~Exceeds(convOut.written, ClipTarget)
           /\ (RawPeak > ClipTarget /\ RawPeak <= ClipThreshold)
                => convOut.written = Samples(FALSE, RawFlat)

\* C6 witness: a raw output peaking above 1.0 was written with peak 0.95.
C6_Witness ==
    /\ conv.phase = "done" /\ convOut.wrote
    /\ RawPeak > ClipThreshold /\ Peak(convOut.written) = ClipTarget

\* C7: every raw output with peak below 0.1, all-zero included, is
\* converted without failure and written with peak 0.5.
C7_QuietBoosted ==
    (conv.phase = "done" /\ convOut.invoked /\ conv.writeOk
     /\ RawFlat # <<>> /\ RawPeak < 100)
        => /\ convOut.exc = "None" /\ convOut.wrote
           /\ ~convOut.written.nan
           /\ Peak(convOut.written) = 500

\* positions of the emitted pairs that carry a full-audio payload
Carrying == {i \in 1..Len(conv.gen) : conv.gen[i] # NonePayload}

LastCarried == conv.gen[CHOOSE i \in Carrying : \A j \in Carrying : j <= i]

\* C8: when the streaming conversion runs (it does unless the output
\* directory cannot be made), every emitted pair is consumed; the result is
\* the last full-audio payload (the buffer component of a pair); the call
\* fails with "No audio was generated", writing nothing, exactly when no
\* pair carried a payload.
C8_LastPayload ==
    /\ conv.phase = "done" =>
         (convOut.invoked <=> conv.outDir \notin {"under_file", "unreachable"})
    /\ (conv.phase = "done" /\ convOut.invoked)
        => /\ convOut.consumed = Len(conv.gen)
           /\ (Carrying = {}) <=>
                (convOut.exc = "TypeError"
                 /\ convOut.msg = "No audio was generated from convert_voice")
           /\ (Carrying = {}) => ~convOut.wrote
           /\ (Carrying # {} /\ LastCarried.tlen \in {0, 2}
                /\ LastCarried.obj.type \in {"ndarray", "Tensor"})
                => /\ convOut.written = Normalize(Flatten(LastCarried.obj.arr))
                   /\ convOut.wrote = conv.writeOk
           /\ (Carrying # {} /\ (LastCarried.tlen = 3
                                  \/ LastCarried.obj.type \notin {"ndarray", "Tensor"}))
                => /\ convOut.msg = "Unexpected audio type"
                   /\ ~convOut.wrote

\* C8 witness: of two payloads followed by an empty pair, the second payload
\* (a pair holding -1.5) was written, scaled to -0.95.
C8_Witness ==
    /\ conv.phase = "done" /\ Len(conv.gen) = 3
    /\ conv.gen[1] = Payload(0, Obj("ndarray", OneSample(500)))
    /\ conv.gen[2] = Payload(2, Obj("Tensor", OneSample(-1500)))
    /\ conv.gen[3] = NonePayload
    /\ convOut.wrote /\ convOut.written.data = <<-950>>

\* C9: the WAV is written at 44100 when pitch conditioning is on and no
\* rate is given, at 22050 when it is off and no rate is given, and at the
\* explicitly given rate otherwise.
C9_SampleRate ==
    (conv.phase = "done" /\ convOut.wrote)
        => convOut.rate =
             (IF conv.sample_rate.none
              THEN (IF conv.f0_condition THEN 44100 ELSE 22050)
              ELSE conv.sample_rate.v)

\* C9 witness: no rate given, pitch conditioning on, written at 44100.
C9_Witness ==
    /\ conv.phase = "done" /\ convOut.wrote
    /\ conv.sample_rate.none /\ conv.f0_condition /\ convOut.rate = 44100

\* arguments other than --f0, --pitch_shift and the value after it
RECURSIVE CountPositional(_, _)
CountPositional(av, i) ==
    IF i > Len(av) THEN 0
    ELSE IF av[i] = "--f0" THEN CountPositional(av, i + 1)
    ELSE IF av[i] = "--pitch_shift" THEN CountPositional(av, i + 2)
    ELSE 1 + CountPositional(av, i + 1)

\* C10: with fewer than 3 positional arguments the CLI prints the usage
\* text and exits with failure status without calling the facade.
C10_UsageOnFewPositionals ==
    (cli.phase = "exit" /\ CountPositional(argv, 2) < 3)
        => (cli.usage /\ cli.status = 1 /\ ~cli.invoked)

====
